---- MODULE Spec2Model ----
(***************************************************************************)
(* ADEGuard: the analysis service (services/geminiService.ts), the         *)
(* Dashboard component with its voice agent and read-aloud playback, the   *)
(* App-level history, and the HighlightedText annotator.                   *)
(*                                                                         *)
(* React state is read by a handler from the render in which the handler   *)
(* was created.  A click runs the handler of the latest render, so it      *)
(* reads the current state; the continuation of an await keeps the values  *)
(* of the render in which the call was started (record Render below).      *)
(***************************************************************************)
EXTENDS Integers, Sequences, FiniteSets, TLC

\* ------------------------------------------------------------------ bounds
MaxCalls == 2      \* analyzeClinicalContent invocations in one behaviour
MaxAsync == 3      \* analyses, recordings and playbacks started in one behaviour
MaxNarr == 3       \* length of the annotated narrative
MaxEntLen == 2     \* length of an entity's text
MaxEnts == 2       \* number of entities handed to HighlightedText
MaxSamples == 3    \* 16-bit samples in a decoded byte stream
MaxSends == 3      \* handleSend invocations that reach the chat transport

\* --------------------------------------------------------- service values
NullText == "<null>"
NoAttachment == <<"none", "none">>
MimeTypes == {<<"image", "png">>, <<"application", "pdf">>, <<"audio", "wav">>}
AudioWav == <<"audio", "wav">>
TextValues == {NullText, "", " ", "note"}

SchemaRequired ==
  {"transcript", "entities", "summary", "patientAgeGroup", "overallRiskScore",
   "clinicalReasoning", "suggestedActions", "sentiment", "classification",
   "tamilAnalysis"}

\* detectedLanguage: a sequence of characters, or absent.
NoLanguage == <<"<absent>">>
LangEnglish == <<"E", "n", "g", "l", "i", "s", "h">>
LangTamil == <<"T", "a", "m", "i", "l">>
LangMixed == <<"e", "n", "/", "T", "A", "M", "I", "L">>

\* What the generation transport can answer: the call throws ("error"), the
\* response has no text ("empty"), the text is not JSON ("malformed"), or it
\* is a JSON object holding the top-level fields `fields`.
ErrorResp == [kind |-> "error", fields |-> {}, lang |-> NoLanguage]
EmptyResp == [kind |-> "empty", fields |-> {}, lang |-> NoLanguage]
MalformedResp == [kind |-> "malformed", fields |-> {}, lang |-> NoLanguage]
NoResp == [kind |-> "none", fields |-> {}, lang |-> NoLanguage]
ObjectResp(F, l) == [kind |-> "object", fields |-> F, lang |-> l]

\* The answers drawn for the service's clients ...
ServiceResponses ==
  {ErrorResp, EmptyResp, MalformedResp,
   ObjectResp(SchemaRequired, NoLanguage),
   ObjectResp(SchemaRequired \ {"overallRiskScore"}, NoLanguage)}
\* ... and for the Dashboard, whose voice agent reads transcript,
\* detectedLanguage and tamilAnalysis.
DashboardResponses ==
  {ErrorResp,
   ObjectResp(SchemaRequired, NoLanguage),
   ObjectResp(SchemaRequired, LangEnglish),
   ObjectResp(SchemaRequired, LangTamil),
   ObjectResp(SchemaRequired, LangMixed),
   ObjectResp(SchemaRequired \ {"tamilAnalysis"}, LangTamil)}
\* The arguments drawn for a direct call.
DirectInputs ==
  {<<t, NoAttachment>> : t \in TextValues}
    \cup {<<t, a>> : t \in {NullText, "note"}, a \in MimeTypes}

NullResult == [kind |-> "null", fields |-> {}, lang |-> NoLanguage]

\* JavaScript truthiness of a `string | null`.
Truthy(s) == s # NullText /\ s # ""

\* String.prototype.toLowerCase, for a string kept as a sequence of characters.
LowerChar(ch) ==
  CASE ch = "A" -> "a" [] ch = "E" -> "e" [] ch = "I" -> "i"
    [] ch = "L" -> "l" [] ch = "M" -> "m" [] ch = "T" -> "t"
    [] OTHER -> ch
ToLowerCase(str) == [i \in 1..Len(str) |-> LowerChar(str[i])]

\* String.prototype.trim on the modelled inputs.
Trim(s) == IF s = " " THEN "" ELSE s

\* Dispatches with a guard that tests for null only.
DispatchesNullOnly(txt, att) == att # NoAttachment \/ txt # NullText

\* analyzeClinicalContent, up to the transport call: FALSE when it throws
\* "No input provided" before dispatch.
Dispatches(txt, att) == att # NoAttachment \/ Truthy(txt)

\* SelectModel with audio sent to the vision model as well.
SelectModelAudioPro(att) ==
  IF att # NoAttachment /\ att[1] \in {"image", "audio"}
  THEN "gemini-3-pro-preview" ELSE "gemini-2.5-flash"

\* analyzeClinicalContent, model selection.
SelectModel(att) ==
  IF att # NoAttachment /\ att[1] = "image"
  THEN "gemini-3-pro-preview" ELSE "gemini-2.5-flash"

\* analyzeClinicalContent, the text part of the request turn.
RequestText(txt, att) ==
  IF att # NoAttachment /\ ~Truthy(txt) THEN "Analyze this clinical input."
  ELSE txt

\* Settle with a parse failure answered by an empty default result.
SettleDefault(resp) ==
  IF resp.kind = "error" THEN [status |-> "rejected", value |-> NullResult]
  ELSE IF resp.kind = "empty" THEN [status |-> "rejected", value |-> NullResult]
  ELSE IF resp.kind = "malformed"
    THEN [status |-> "resolved", value |-> ObjectResp({}, NoLanguage)]
  ELSE [status |-> "resolved", value |-> resp]

\* analyzeClinicalContent, after the transport call: the promise's outcome.
Settle(resp) ==
  IF resp.kind = "error" THEN [status |-> "rejected", value |-> NullResult]
  ELSE IF resp.kind = "empty" THEN [status |-> "rejected", value |-> NullResult]
  ELSE IF resp.kind = "malformed" THEN [status |-> "rejected", value |-> NullResult]
  ELSE [status |-> "resolved", value |-> resp]

\* ------------------------------------------------------------------ state
VARIABLES
  input,            \* Dashboard: the textarea
  attachment,       \* Dashboard: MIME type of the attached file, or NoAttachment
  pendingFile,      \* Dashboard: file being read by handleFileChange's FileReader
  result,           \* Dashboard: the displayed AnalysisResult, or NullResult
  loading,          \* Dashboard
  showTamil,        \* Dashboard
  toast,            \* Dashboard: message of the toast raised by the last step
  isPlayingAudio,   \* Dashboard
  audioSource,      \* Dashboard: index into sources, 0 for null
  sources,          \* every AudioBufferSourceNode created: playing, stopped, ended
  isRecording,      \* Dashboard
  mediaRecorderRef, \* Dashboard: index into recorders, 0 for null
  recorders,        \* every startVoiceAgent invocation and its MediaRecorder
  calls,            \* analyzeClinicalContent invocations awaiting the transport
  nCalls,           \* number of analyzeClinicalContent invocations so far
  settled,          \* the analyzeClinicalContent invocation settled by the last step
  tts,              \* playTTS invocations awaiting generateSpeech
  user,             \* App: TRUE when a user is logged in
  history,          \* App: sequence of HistoryItem, newest first
  text,             \* HighlightedText: the narrative, a sequence of characters
  entities,         \* HighlightedText: the entities to highlight
  sortedEntities,   \* renderText: entities, longest text first
  parts,            \* renderText: the segments so far
  k,                \* renderText: index of the next entity of the forEach
  hpc,              \* HighlightedText: idle, start, loop, done
  messages,         \* ChatBot: the ChatMessage turns, oldest first
  chatInput,        \* ChatBot: the input field
  chatLoading,      \* ChatBot: loading
  chatCalls,        \* handleSend invocations awaiting sendChatMessage
  nSends,           \* number of sendChatMessage invocations so far
  chatSettled,      \* the sendChatMessage invocation settled by the last step
  pcmData,          \* decodeAudioData: the bytes handed in
  pcmChannels,      \* decodeAudioData: numChannels
  pcmOut            \* decodeAudioData: the AudioBuffer, or the throw

dashVars ==
  <<input, attachment, pendingFile, result, loading, showTamil, toast,
    isPlayingAudio, audioSource, sources, isRecording, mediaRecorderRef,
    recorders, calls, nCalls, settled, tts, user, history>>

annotVars == <<text, entities, sortedEntities, parts, k, hpc>>

chatVars ==
  <<messages, chatInput, chatLoading, chatCalls, nSends, chatSettled>>

pcmVars == <<pcmData, pcmChannels, pcmOut>>

nonDashVars == <<annotVars, chatVars, pcmVars>>
nonAnnotVars == <<dashVars, chatVars, pcmVars>>
nonChatVars == <<dashVars, annotVars, pcmVars>>
nonPcmVars == <<dashVars, annotVars, chatVars>>

vars == <<dashVars, annotVars, chatVars, pcmVars>>

SAMPLE_NOTE == "note"
TranscriptText == "transcript"
InputValues == {"", " ", SAMPLE_NOTE}
MaxFileSize == 5 * 1024 * 1024
AcceptedTypes ==
  {<<"application", "pdf">>, <<"image", "jpeg">>, <<"image", "png">>,
   <<"image", "webp">>}
Files ==
  [size : {MaxFileSize, MaxFileSize + 1},
   type : {<<"application", "pdf">>, <<"image", "png">>, <<"text", "plain">>}]
NoFile == <<"none", "none">>

\* The state a handler created in the current render closes over: the
\* Dashboard's playback state, and the user and history inside the App's
\* handleAnalyzeComplete passed down as onAnalyzeComplete.
Render ==
  [isPlayingAudio |-> isPlayingAudio, audioSource |-> audioSource,
   user |-> user, history |-> history]
\* The part of it that handleAnalyze's continuation reads.
AppRender ==
  [isPlayingAudio |-> FALSE, audioSource |-> 0,
   user |-> user, history |-> history]
NoRender ==
  [isPlayingAudio |-> FALSE, audioSource |-> 0, user |-> FALSE,
   history |-> <<>>]

NoSettled ==
  [caller |-> "none", text |-> NullText, att |-> NoAttachment,
   dispatched |-> FALSE, resp |-> NoResp, status |-> "none",
   value |-> NullResult]

\* The Dashboard and the App after mounting.
InitDashboard ==
  /\ input = SAMPLE_NOTE
  /\ attachment = NoAttachment
  /\ pendingFile = NoFile
  /\ result = NullResult
  /\ loading = FALSE
  /\ showTamil = FALSE
  /\ toast = "none"
  /\ isPlayingAudio = FALSE
  /\ audioSource = 0
  /\ sources = <<>>
  /\ isRecording = FALSE
  /\ mediaRecorderRef = 0
  /\ recorders = <<>>
  /\ calls = <<>>
  /\ nCalls = 0
  /\ settled = NoSettled
  /\ tts = <<>>
  /\ user = FALSE
  /\ history = <<>>

\* No HighlightedText is being rendered.
IdleAnnotator ==
  /\ text = <<>>
  /\ entities = <<>>
  /\ sortedEntities = <<>>
  /\ parts = <<>>
  /\ k = 1
  /\ hpc = "idle"

\* ChatBot values.  The greeting has id '1'; a uuid is modelled by an even
\* number for the user turn of a send and the next odd number for its answer.
GreetingText == "Hello. I am your AI Assistant. How can I help you with the dashboard today?"
ChatFallback == "I could not generate a response."
ChatErrorText == "I encountered an error. Please try again."
ChatMessage(id, role, txt) == [id |-> id, role |-> role, text |-> txt]
Greeting == ChatMessage(1, "model", GreetingText)
ChatInputs == {"", " ", "hi"}

\* What chat.sendMessage can answer: it throws, or it returns a result whose
\* text is absent, empty or a reply.
ChatError == [kind |-> "error", text |-> NullText]
ChatText(txt) == [kind |-> "text", text |-> txt]
ChatResponses == {ChatError, ChatText(NullText), ChatText(""), ChatText("reply")}
NoChatResp == [kind |-> "none", text |-> NullText]

NoChatSettled ==
  [id |-> 0, resp |-> NoChatResp, status |-> "none", value |-> NullText]

\* The ChatBot after mounting.
IdleChat ==
  /\ messages = <<Greeting>>
  /\ chatInput = ""
  /\ chatLoading = FALSE
  /\ chatCalls = <<>>
  /\ nSends = 0
  /\ chatSettled = NoChatSettled

\* decodeAudioData has not been called.
NoBuffer == [status |-> "none", channels |-> <<>>, reads |-> {}]

IdleDecoder ==
  /\ pcmData = <<>>
  /\ pcmChannels = 1
  /\ pcmOut = NoBuffer

Init == InitDashboard /\ IdleAnnotator /\ IdleChat /\ IdleDecoder

\* The analyses, voice sessions and playbacks started so far (a playTTS whose
\* synthesis failed leaves no trace).
Started == nCalls + Len(recorders) + Len(tts) + Len(sources)

\* seq without its i-th element
RemoveAt(seq, i) ==
  [j \in 1..(Len(seq) - 1) |-> IF j < i THEN seq[j] ELSE seq[j + 1]]

\* AudioBufferSourceNode.stop(): a playing node stops; its ended event is
\* still to be delivered.  Index 0 is `null?.stop()`.
StopSource(srcs, s) ==
  IF s # 0 /\ srcs[s] = "playing" THEN [srcs EXCEPT ![s] = "stopped"] ELSE srcs

\* App.handleAnalyzeComplete as closed over by render e.  A HistoryItem is
\* modelled by the number of the analysis call that produced it.
HandleAnalyzeComplete(e, id) ==
  IF e.user THEN <<id>> \o e.history ELSE history

\* A new analyzeClinicalContent invocation suspended at generateContent.
NewCall(id, caller, txt, att, e) ==
  [id |-> id, caller |-> caller, text |-> txt, att |-> att,
   request |-> RequestText(txt, att), model |-> SelectModel(att),
   schema |-> SchemaRequired, env |-> e]

\* The record of an invocation that threw before the transport call.
Refused(caller, txt, att) ==
  [caller |-> caller, text |-> txt, att |-> att, dispatched |-> FALSE,
   resp |-> NoResp, status |-> "rejected", value |-> NullResult]

\* The record of an invocation the transport answered with resp.
Answered(call, resp) ==
  [caller |-> call.caller, text |-> call.text, att |-> call.att,
   dispatched |-> TRUE, resp |-> resp, status |-> Settle(resp).status,
   value |-> Settle(resp).value]

\* A new playTTS invocation suspended at `await generateSpeech`.
NewTts(txt, voice, awaited) ==
  [text |-> txt, voice |-> voice, awaited |-> awaited]

\* ------------------------------------------------- Dashboard: text and file
SetInput(v) ==
  /\ input' = v
  /\ settled' = NoSettled
  /\ toast' = "none"
  /\ UNCHANGED <<attachment, pendingFile, result, loading, showTamil, isPlayingAudio, audioSource, sources, isRecording,
                 mediaRecorderRef, recorders, calls, nCalls, tts,
                 user, history>>
  /\ UNCHANGED nonDashVars

\* HandleFileChange without the size limit.
HandleFileChangeAnySize(file) ==
  /\ pendingFile = NoFile
  /\ IF file.type \notin AcceptedTypes
     THEN toast' = "Only PDF and Images supported" /\ UNCHANGED pendingFile
     ELSE pendingFile' = file.type /\ toast' = "none"
  /\ settled' = NoSettled
  /\ UNCHANGED <<input, attachment, result, loading, showTamil,
                 isPlayingAudio, audioSource, sources, isRecording,
                 mediaRecorderRef, recorders, calls, nCalls, tts,
                 user, history>>
  /\ UNCHANGED nonDashVars

\* handleFileChange up to reader.readAsDataURL.
HandleFileChange(file) ==
  /\ pendingFile = NoFile
  /\ IF file.size > MaxFileSize
     THEN toast' = "File too large (Max 5MB)" /\ UNCHANGED pendingFile
     ELSE IF file.type \notin AcceptedTypes
     THEN toast' = "Only PDF and Images supported" /\ UNCHANGED pendingFile
     ELSE pendingFile' = file.type /\ toast' = "none"
  /\ settled' = NoSettled
  /\ UNCHANGED <<input, attachment, result, loading, showTamil,
                 isPlayingAudio, audioSource, sources, isRecording,
                 mediaRecorderRef, recorders, calls, nCalls, tts,
                 user, history>>
  /\ UNCHANGED nonDashVars

FileReaderLoadEnd ==
  /\ pendingFile # NoFile
  /\ attachment' = pendingFile
  /\ pendingFile' = NoFile
  /\ toast' = "File Attached"
  /\ settled' = NoSettled
  /\ UNCHANGED <<input, result, loading, showTamil,
                 isPlayingAudio, audioSource, sources, isRecording,
                 mediaRecorderRef, recorders, calls, nCalls, tts,
                 user, history>>
  /\ UNCHANGED nonDashVars

RemoveAttachment ==
  /\ attachment # NoAttachment
  /\ attachment' = NoAttachment
  /\ settled' = NoSettled
  /\ toast' = "none"
  /\ UNCHANGED <<input, pendingFile, result, loading, showTamil, isPlayingAudio, audioSource, sources, isRecording,
                 mediaRecorderRef, recorders, calls, nCalls, tts,
                 user, history>>
  /\ UNCHANGED nonDashVars

\* ------------------------------------------------------ App: login, logout
Login ==
  /\ ~user
  /\ user' = TRUE
  /\ settled' = NoSettled
  /\ toast' = "none"
  /\ UNCHANGED <<input, attachment, pendingFile, result, loading, showTamil,
                 isPlayingAudio, audioSource, sources, isRecording,
                 mediaRecorderRef, recorders, calls, nCalls, tts,
                 history>>
  /\ UNCHANGED nonDashVars

Logout ==
  /\ user
  /\ user' = FALSE
  /\ settled' = NoSettled
  /\ toast' = "none"
  /\ UNCHANGED <<input, attachment, pendingFile, result, loading, showTamil,
                 isPlayingAudio, audioSource, sources, isRecording,
                 mediaRecorderRef, recorders, calls, nCalls, tts,
                 history>>
  /\ UNCHANGED nonDashVars

\* --------------------------------------------------- Dashboard: playback
\* playTTS before its await, as closed over by render e: the sources after
\* `if (isPlayingAudio) audioSource?.stop()`.
PlayTTSStop(e, srcs) ==
  IF e.isPlayingAudio THEN StopSource(srcs, e.audioSource) ELSE srcs

\* playTTS before its await: isPlayingAudio after setIsPlayingAudio(false).
PlayTTSFlag(e, flag) == IF e.isPlayingAudio THEN FALSE ELSE flag

\* handleAnalyze: `if (isPlayingAudio && audioSource) audioSource.stop()`.
AnalyzeStop(srcs) ==
  IF isPlayingAudio /\ audioSource # 0 THEN StopSource(srcs, audioSource)
  ELSE srcs

\* The read-aloud button: playTTS of the latest render.
PlayClick ==
  /\ result # NullResult
  /\ Started < MaxAsync
  /\ showTamil => "tamilAnalysis" \in result.fields
  /\ sources' = PlayTTSStop(Render, sources)
  /\ isPlayingAudio' = PlayTTSFlag(Render, isPlayingAudio)
  /\ tts' = Append(tts,
       NewTts(IF showTamil THEN "tamilAnalysis.summary" ELSE "summary",
              IF showTamil THEN "Puck" ELSE "Kore", FALSE))
  /\ settled' = NoSettled
  /\ toast' = "none"
  /\ UNCHANGED <<input, attachment, pendingFile, result, loading, showTamil,
                 audioSource, isRecording, mediaRecorderRef, recorders,
                 calls, nCalls, user, history>>
  /\ UNCHANGED nonDashVars

ToggleTamil ==
  /\ result # NullResult
  /\ showTamil' = ~showTamil
  /\ settled' = NoSettled
  /\ toast' = "none"
  /\ UNCHANGED <<input, attachment, pendingFile, result, loading, isPlayingAudio, audioSource, sources, isRecording,
                 mediaRecorderRef, recorders, calls, nCalls, tts,
                 user, history>>
  /\ UNCHANGED nonDashVars

SpeechOutcomes == {"error", "empty", "audio"}

\* playTTS after `await generateSpeech`.  A thrown transport error, and an
\* empty audio payload (createBuffer of zero frames throws), end in the catch
\* block.  When processVoiceInput awaits this playTTS, its continuation runs
\* in the same turn.
TtsComplete(t, outcome) ==
  /\ tts' = RemoveAt(tts, t)
  /\ IF outcome = "audio"
     THEN /\ sources' = Append(sources, "playing")
          /\ audioSource' = Len(sources) + 1
          /\ isPlayingAudio' = TRUE
     ELSE UNCHANGED <<sources, audioSource, isPlayingAudio>>
  /\ IF tts[t].awaited
     THEN loading' = FALSE /\ toast' = "Voice Analysis Complete"
     ELSE /\ UNCHANGED loading
          /\ toast' = IF outcome = "audio" THEN "none"
                      ELSE "Audio playback failed"
  /\ settled' = NoSettled
  /\ UNCHANGED <<input, attachment, pendingFile, result, showTamil,
                 isRecording, mediaRecorderRef, recorders, calls, nCalls, user, history>>
  /\ UNCHANGED nonDashVars

\* SourceEnded that leaves the source handle in place.
SourceEndedKeepHandle(s) ==
  /\ sources[s] \in {"playing", "stopped"}
  /\ sources' = [sources EXCEPT ![s] =
       IF @ = "playing" THEN "ended" ELSE "cancelled"]
  /\ isPlayingAudio' = FALSE
  /\ settled' = NoSettled
  /\ toast' = "none"
  /\ UNCHANGED <<input, attachment, pendingFile, result, loading, showTamil,
                 audioSource, isRecording, mediaRecorderRef, recorders, calls,
                 nCalls, tts, user, history>>
  /\ UNCHANGED nonDashVars

\* source.onended: delivered when the node plays to its end ("ended"), and
\* after stop() ("cancelled").
SourceEnded(s) ==
  /\ sources[s] \in {"playing", "stopped"}
  /\ sources' = [sources EXCEPT ![s] =
       IF @ = "playing" THEN "ended" ELSE "cancelled"]
  /\ isPlayingAudio' = FALSE
  /\ audioSource' = 0
  /\ settled' = NoSettled
  /\ toast' = "none"
  /\ UNCHANGED <<input, attachment, pendingFile, result, loading, showTamil,
                 isRecording, mediaRecorderRef, recorders, calls,
                 nCalls, tts, user, history>>
  /\ UNCHANGED nonDashVars

\* --------------------------------------------------- Dashboard: analysis
\* TypedResult with the result cleared when the analysis fails.
TypedResultCleared(outcome, res) ==
  IF outcome.status = "resolved" THEN outcome.value ELSE NullResult

\* handleAnalyze after its await: the displayed result.
TypedResult(outcome, res) ==
  IF outcome.status = "resolved" THEN outcome.value ELSE res

\* handleAnalyze after its await: the history as left by onAnalyzeComplete.
TypedHistory(outcome, call) ==
  IF outcome.status = "resolved" THEN HandleAnalyzeComplete(call.env, call.id)
  ELSE history

TypedToast(outcome) ==
  IF outcome.status = "resolved" THEN "Report Generated"
  ELSE "Analysis failed. Check input."

\* handleAnalyze: the invocation that settles within the click, if any.
HandleAnalyzeSettled ==
  IF ~(Trim(input) = "" /\ attachment = NoAttachment)
       /\ ~Dispatches(input, attachment)
  THEN Refused("typed", input, attachment) ELSE NoSettled

\* The Analyze button (disabled while loading), up to the await.
HandleAnalyze ==
  /\ ~loading
  /\ settled' = HandleAnalyzeSettled
  /\ IF Trim(input) = "" /\ attachment = NoAttachment
     THEN /\ toast' = "Please enter text or attach a file"
          /\ UNCHANGED <<loading, showTamil, sources, isPlayingAudio, calls,
                         nCalls>>
     ELSE /\ nCalls < MaxCalls
          /\ Started < MaxAsync
          /\ nCalls' = nCalls + 1
          /\ showTamil' = FALSE
          /\ sources' = AnalyzeStop(sources)
          /\ isPlayingAudio' =
               IF isPlayingAudio /\ audioSource # 0 THEN FALSE
               ELSE isPlayingAudio
          /\ IF Dispatches(input, attachment)
             THEN /\ calls' = Append(calls,
                       NewCall(nCalls + 1, "typed", input, attachment, AppRender))
                  /\ loading' = TRUE
                  /\ toast' = "none"
             ELSE /\ loading' = FALSE
                  /\ toast' = "Analysis failed. Check input."
                  /\ UNCHANGED calls
  /\ UNCHANGED <<input, attachment, pendingFile, result, audioSource,
                 isRecording, mediaRecorderRef, recorders, tts, user, history>>
  /\ UNCHANGED nonDashVars


\* handleAnalyze after `await analyzeClinicalContent`.
TypedComplete(c, resp) ==
  /\ calls[c].caller = "typed"
  /\ calls' = RemoveAt(calls, c)
  /\ settled' = Answered(calls[c], resp)
  /\ result' = TypedResult(Settle(resp), result)
  /\ history' = TypedHistory(Settle(resp), calls[c])
  /\ toast' = TypedToast(Settle(resp))
  /\ loading' = FALSE
  /\ UNCHANGED <<input, attachment, pendingFile, showTamil, isPlayingAudio,
                 audioSource, sources, isRecording, mediaRecorderRef,
                 recorders, nCalls, tts, user>>
  /\ UNCHANGED nonDashVars

\* Any other client of the exported analyzeClinicalContent.
DirectAnalyze(txt, att) ==
  /\ nCalls < MaxCalls
  /\ Started < MaxAsync
  /\ nCalls' = nCalls + 1
  /\ IF Dispatches(txt, att)
     THEN /\ calls' = Append(calls, NewCall(nCalls + 1, "direct", txt, att, NoRender))
          /\ settled' = NoSettled
     ELSE /\ settled' = Refused("direct", txt, att)
          /\ UNCHANGED calls
  /\ toast' = "none"
  /\ UNCHANGED <<input, attachment, pendingFile, result, loading, showTamil,
                 isPlayingAudio, audioSource, sources, isRecording,
                 mediaRecorderRef, recorders, tts, user, history>>
  /\ UNCHANGED nonDashVars

DirectComplete(c, resp) ==
  /\ calls[c].caller = "direct"
  /\ calls' = RemoveAt(calls, c)
  /\ settled' = Answered(calls[c], resp)
  /\ toast' = "none"
  /\ UNCHANGED <<input, attachment, pendingFile, result, loading, showTamil,
                 isPlayingAudio, audioSource, sources, isRecording,
                 mediaRecorderRef, recorders, nCalls, tts, user, history>>
  /\ UNCHANGED nonDashVars

\* ------------------------------------------------ Dashboard: voice agent
NewRecorder ==
  [state |-> "requesting", stream |-> "none", env |-> Render]

\* The voice button: stopVoiceAgent when recording, else startVoiceAgent,
\* which suspends at `await getUserMedia`.
VoiceClick ==
  /\ IF isRecording
     THEN /\ mediaRecorderRef # 0
          /\ recorders' = [recorders EXCEPT ![mediaRecorderRef].state =
               IF @ = "recording" THEN "stopping" ELSE @]
          /\ isRecording' = FALSE
     ELSE /\ Started < MaxAsync
          /\ recorders' = Append(recorders, NewRecorder)
          /\ UNCHANGED isRecording
  /\ settled' = NoSettled
  /\ toast' = "none"
  /\ UNCHANGED <<input, attachment, pendingFile, result, loading, showTamil,
                 isPlayingAudio, audioSource, sources,
                 mediaRecorderRef, calls, nCalls, tts, user, history>>
  /\ UNCHANGED nonDashVars

\* GetUserMediaComplete that shows the recording state after a denial too.
GetUserMediaCompleteRecording(r, granted) ==
  /\ recorders[r].state = "requesting"
  /\ IF granted
     THEN /\ recorders' = [recorders EXCEPT ![r].state = "recording",
                                            ![r].stream = "live"]
          /\ mediaRecorderRef' = r
          /\ toast' = "none"
     ELSE /\ recorders' = [recorders EXCEPT ![r].state = "denied",
                                            ![r].env = NoRender]
          /\ toast' = "Microphone access denied"
          /\ UNCHANGED mediaRecorderRef
  /\ isRecording' = TRUE
  /\ settled' = NoSettled
  /\ UNCHANGED <<input, attachment, pendingFile, result, loading, showTamil,
                 isPlayingAudio, audioSource, sources, calls, nCalls, tts, user, history>>
  /\ UNCHANGED nonDashVars

\* startVoiceAgent after `await getUserMedia`.
GetUserMediaComplete(r, granted) ==
  /\ recorders[r].state = "requesting"
  /\ IF granted
     THEN /\ recorders' = [recorders EXCEPT ![r].state = "recording",
                                            ![r].stream = "live"]
          /\ mediaRecorderRef' = r
          /\ isRecording' = TRUE
          /\ toast' = "none"
     ELSE /\ recorders' = [recorders EXCEPT ![r].state = "denied",
                                            ![r].env = NoRender]
          /\ toast' = "Microphone access denied"
          /\ UNCHANGED <<mediaRecorderRef, isRecording>>
  /\ settled' = NoSettled
  /\ UNCHANGED <<input, attachment, pendingFile, result, loading, showTamil,
                 isPlayingAudio, audioSource, sources, calls, nCalls, tts, user, history>>
  /\ UNCHANGED nonDashVars

\* RecorderOnStop without the stop of the stream's tracks.
RecorderOnStopKeepStream(r) ==
  /\ recorders[r].state = "stopping"
  /\ recorders' = [recorders EXCEPT ![r].state = "reading"]
  /\ loading' = TRUE
  /\ toast' = "Processing voice input..."
  /\ settled' = NoSettled
  /\ UNCHANGED <<input, attachment, pendingFile, result, showTamil,
                 isPlayingAudio, audioSource, sources, isRecording,
                 mediaRecorderRef, calls, nCalls, tts, user, history>>
  /\ UNCHANGED nonDashVars

\* mediaRecorder.onstop: processVoiceInput runs up to reader.readAsDataURL
\* and returns, then the stream's tracks are stopped.
RecorderOnStop(r) ==
  /\ recorders[r].state = "stopping"
  /\ recorders' = [recorders EXCEPT ![r].state = "reading",
                                    ![r].stream = "stopped"]
  /\ loading' = TRUE
  /\ toast' = "Processing voice input..."
  /\ settled' = NoSettled
  /\ UNCHANGED <<input, attachment, pendingFile, result, showTamil,
                 isPlayingAudio, audioSource, sources, isRecording,
                 mediaRecorderRef, calls, nCalls, tts, user, history>>
  /\ UNCHANGED nonDashVars

\* processVoiceInput, reader.onloadend up to `await analyzeClinicalContent`.
\* The recorder's closure lives on in the call.
VoiceReaderLoadEnd(r) ==
  /\ recorders[r].state = "reading"
  /\ nCalls < MaxCalls
  /\ Started < MaxAsync
  /\ nCalls' = nCalls + 1
  /\ recorders' = [recorders EXCEPT ![r].state = "analyzing",
                                    ![r].env = NoRender]
  /\ calls' = Append(calls,
       NewCall(nCalls + 1, "voice", NullText, AudioWav, recorders[r].env))
  /\ settled' = NoSettled
  /\ toast' = "none"
  /\ UNCHANGED <<input, attachment, pendingFile, result, loading, showTamil,
                 isPlayingAudio, audioSource, sources, isRecording,
                 mediaRecorderRef, tts, user, history>>
  /\ UNCHANGED nonDashVars

\* String.prototype.includes
Includes(str, sub) ==
  \E p \in 0..(Len(str) - Len(sub)) : SubSeq(str, p + 1, p + Len(sub)) = sub

\* data.detectedLanguage?.toLowerCase().includes('tamil')
IsTamil(lang) ==
  lang # NoLanguage
    /\ Includes(ToLowerCase(lang), <<"t", "a", "m", "i", "l">>)

\* processVoiceInput, reader.onloadend after `await analyzeClinicalContent`,
\* up to `await playTTS`.  A rejection, and the TypeError of reading
\* tamilAnalysis.summary off a payload without tamilAnalysis, leave the
\* callback: nothing catches them.
VoiceComplete(c, resp) ==
  /\ calls[c].caller = "voice"
  /\ calls' = RemoveAt(calls, c)
  /\ settled' = Answered(calls[c], resp)
  /\ LET data == Settle(resp).value
         e == calls[c].env
         throws == IsTamil(data.lang) /\ "tamilAnalysis" \notin data.fields
     IN
       IF Settle(resp).status = "rejected"
       THEN UNCHANGED <<input, result, history, showTamil, sources,
                        isPlayingAudio, tts>>
       ELSE /\ input' = IF "transcript" \in data.fields THEN TranscriptText
                        ELSE input
            /\ result' = data
            /\ history' = HandleAnalyzeComplete(e, calls[c].id)
            /\ showTamil' = IsTamil(data.lang)
            /\ IF throws
               THEN UNCHANGED <<sources, isPlayingAudio, tts>>
               ELSE /\ Started < MaxAsync
                    /\ sources' = PlayTTSStop(e, sources)
                    /\ isPlayingAudio' = PlayTTSFlag(e, isPlayingAudio)
                    /\ tts' = Append(tts,
                         IF IsTamil(data.lang)
                         THEN NewTts("tamilAnalysis.summary", "Puck", TRUE)
                         ELSE NewTts("summary", "Kore", TRUE))
  /\ toast' = "none"
  /\ UNCHANGED <<attachment, pendingFile, loading, audioSource,
                 isRecording, mediaRecorderRef, recorders, nCalls, user>>
  /\ UNCHANGED nonDashVars

\* ------------------------------------------------------ HighlightedText
\* Strings are sequences of characters.  "a" and "A" are the two cases of one
\* letter; "." has no case and is special in a regular expression.
Alphabet == {"a", "A", "."}
EntityTypes == {"DRUG", "ADE"}

Strings(n) == UNION {[1..m -> Alphabet] : m \in 0..n}
Entities == [text : Strings(MaxEntLen), type : EntityTypes]

NoEntity == [text |-> <<>>, type |-> "none"]
TextPart(str) == [text |-> str, type |-> "text", entity |-> NoEntity]
MatchPart(str, entity) == [text |-> str, type |-> "match", entity |-> entity]

\* Canonicalize of a RegExp without the ignore-case flag.
CanonicalizeExact(ch) == ch

\* Canonicalize of an ignore-case RegExp: the character's upper case.
Canonicalize(ch) == IF ch = "a" THEN "A" ELSE ch

RegExpSpecial ==
  {".", "*", "+", "?", "^", "$", "{", "}", "(", ")", "|", "[", "]", "\\"}

\* escapeRegExp: a backslash before every special character.
RECURSIVE EscapeRegExp(_)
EscapeRegExp(str) ==
  IF str = <<>> THEN <<>>
  ELSE (IF Head(str) \in RegExpSpecial THEN <<"\\", Head(str)>>
        ELSE <<Head(str)>>) \o EscapeRegExp(Tail(str))

\* new RegExp(`(${source})`, 'gi'): the atoms of the captured pattern.  An
\* escaped character and an ordinary character stand for themselves, a bare
\* "." for any character.
RECURSIVE RegExpAtoms(_)
RegExpAtoms(source) ==
  IF source = <<>> THEN <<>>
  ELSE IF Head(source) = "\\" /\ Len(source) >= 2
    THEN <<[kind |-> "lit", ch |-> source[2]]>>
           \o RegExpAtoms(SubSeq(source, 3, Len(source)))
  ELSE IF Head(source) = "."
    THEN <<[kind |-> "any", ch |-> "."]>> \o RegExpAtoms(Tail(source))
  ELSE <<[kind |-> "lit", ch |-> Head(source)]>> \o RegExpAtoms(Tail(source))

AtomMatches(atom, ch) ==
  atom.kind = "any" \/ Canonicalize(atom.ch) = Canonicalize(ch)

\* The pattern matches str at offset q (0-based).
MatchAt(str, atoms, q) ==
  /\ q + Len(atoms) <= Len(str)
  /\ \A i \in 1..Len(atoms) : AtomMatches(atoms[i], str[q + i])

\* String.prototype.split with a pattern of one capture group: the pieces
\* between the matches, each match's capture after the piece before it.  p is
\* the end of the last match, q the offset tried next; a match that ends at p
\* is skipped.
RECURSIVE SplitFrom(_, _, _, _)
SplitFrom(str, atoms, p, q) ==
  IF q >= Len(str) THEN <<SubSeq(str, p + 1, Len(str))>>
  ELSE IF MatchAt(str, atoms, q) /\ q + Len(atoms) # p
    THEN <<SubSeq(str, p + 1, q), SubSeq(str, q + 1, q + Len(atoms))>>
           \o SplitFrom(str, atoms, q + Len(atoms), q + Len(atoms))
  ELSE SplitFrom(str, atoms, p, q + 1)

Split(str, atoms) == SplitFrom(str, atoms, 0, 0)

\* SortByLength without the sort.
SortByLengthUnsorted(ents) == ents

\* InsertByLength that puts an entity before those of its own length.
RECURSIVE InsertByLengthBefore(_, _)
InsertByLengthBefore(sorted, entity) ==
  IF sorted = <<>> THEN <<entity>>
  ELSE IF Len(Head(sorted).text) > Len(entity.text)
    THEN <<Head(sorted)>> \o InsertByLengthBefore(Tail(sorted), entity)
  ELSE <<entity>> \o sorted

\* [...entities].sort((a, b) => b.text.length - a.text.length): a stable
\* sort, longest text first.
RECURSIVE InsertByLength(_, _)
InsertByLength(sorted, entity) ==
  IF sorted = <<>> THEN <<entity>>
  ELSE IF Len(Head(sorted).text) >= Len(entity.text)
    THEN <<Head(sorted)>> \o InsertByLength(Tail(sorted), entity)
  ELSE <<entity>> \o sorted

RECURSIVE SortByLength(_)
SortByLength(ents) ==
  IF ents = <<>> THEN <<>>
  ELSE InsertByLength(SortByLength(SubSeq(ents, 1, Len(ents) - 1)),
                      ents[Len(ents)])

\* TagPieces with the entity's stored text put into the match.
RECURSIVE TagPiecesStoredText(_, _)
TagPiecesStoredText(pieces, entity) ==
  IF pieces = <<>> THEN <<>>
  ELSE (IF Head(pieces) = <<>> THEN <<>>
        ELSE IF ToLowerCase(Head(pieces)) = ToLowerCase(entity.text)
          THEN <<MatchPart(entity.text, entity)>>
        ELSE <<TextPart(Head(pieces))>>)
       \o TagPiecesStoredText(Tail(pieces), entity)

\* renderText, split.forEach: empty strings are dropped, a string equal to
\* the entity's text up to case becomes a match, any other a text part.
RECURSIVE TagPieces(_, _)
TagPieces(pieces, entity) ==
  IF pieces = <<>> THEN <<>>
  ELSE (IF Head(pieces) = <<>> THEN <<>>
        ELSE IF ToLowerCase(Head(pieces)) = ToLowerCase(entity.text)
          THEN <<MatchPart(Head(pieces), entity)>>
        ELSE <<TextPart(Head(pieces))>>) \o TagPieces(Tail(pieces), entity)

\* SplitParts that scans the tagged parts again.
RECURSIVE SplitPartsRescan(_, _)
SplitPartsRescan(ps, entity) ==
  IF ps = <<>> THEN <<>>
  ELSE TagPieces(Split(Head(ps).text,
                       RegExpAtoms(EscapeRegExp(entity.text))), entity)
       \o SplitPartsRescan(Tail(ps), entity)

\* SplitParts with the parts that are not text dropped.
RECURSIVE SplitPartsDropping(_, _)
SplitPartsDropping(ps, entity) ==
  IF ps = <<>> THEN <<>>
  ELSE (IF Head(ps).type # "text" THEN <<>>
        ELSE TagPieces(Split(Head(ps).text,
                             RegExpAtoms(EscapeRegExp(entity.text))), entity))
       \o SplitPartsDropping(Tail(ps), entity)

\* renderText, parts.forEach for one entity: a part that is not text is kept,
\* a text part is split on the entity's text.
RECURSIVE SplitParts(_, _)
SplitParts(ps, entity) ==
  IF ps = <<>> THEN <<>>
  ELSE (IF Head(ps).type # "text" THEN <<Head(ps)>>
        ELSE TagPieces(Split(Head(ps).text,
                             RegExpAtoms(EscapeRegExp(entity.text))), entity))
       \o SplitParts(Tail(ps), entity)

\* The props of a HighlightedText about to be rendered: the narrative ...
RenderNarrative(txt) ==
  /\ hpc = "idle"
  /\ text' = txt
  /\ hpc' = "start"
  /\ UNCHANGED <<entities, sortedEntities, parts, k>>
  /\ UNCHANGED nonAnnotVars

\* ... and the entities, one more at a time.
AddEntity(entity) ==
  /\ hpc = "start"
  /\ Len(entities) < MaxEnts
  /\ entities' = Append(entities, entity)
  /\ UNCHANGED <<text, sortedEntities, parts, k, hpc>>
  /\ UNCHANGED nonAnnotVars

\* IsPassthrough without the test of the text.
IsPassthroughNoText(txt, ents) == Len(ents) = 0

\* `!text || entities.length === 0`
IsPassthrough(txt, ents) == txt = <<>> \/ Len(ents) = 0

\* `if (!text || entities.length === 0) return <p>{text}</p>`
Passthrough ==
  /\ hpc = "start"
  /\ IsPassthrough(text, entities)
  /\ parts' = <<TextPart(text)>>
  /\ hpc' = "done"
  /\ UNCHANGED <<text, entities, sortedEntities, k>>
  /\ UNCHANGED nonAnnotVars

\* renderText up to sortedEntities.forEach
SortEntities ==
  /\ hpc = "start"
  /\ ~IsPassthrough(text, entities)
  /\ sortedEntities' = SortByLength(entities)
  /\ parts' = <<TextPart(text)>>
  /\ k' = 1
  /\ hpc' = "loop"
  /\ UNCHANGED <<text, entities>>
  /\ UNCHANGED nonAnnotVars

\* one turn of sortedEntities.forEach
ProcessEntity ==
  /\ hpc = "loop"
  /\ k <= Len(sortedEntities)
  /\ parts' = SplitParts(parts, sortedEntities[k])
  /\ k' = k + 1
  /\ UNCHANGED <<text, entities, sortedEntities, hpc>>
  /\ UNCHANGED nonAnnotVars

\* renderText returns the spans of parts
RenderParts ==
  /\ hpc = "loop"
  /\ k > Len(sortedEntities)
  /\ hpc' = "done"
  /\ UNCHANGED <<text, entities, sortedEntities, parts, k>>
  /\ UNCHANGED nonAnnotVars

\* ---------------------------------------------------------------- ChatBot
\* sendChatMessage that hands the result's text through as it is.
SendChatMessageRaw(resp) ==
  IF resp.kind = "error" THEN [status |-> "rejected", value |-> NullText]
  ELSE [status |-> "resolved", value |-> resp.text]

\* sendChatMessage: the promise's outcome for the transport's answer.
SendChatMessage(resp) ==
  IF resp.kind = "error" THEN [status |-> "rejected", value |-> NullText]
  ELSE [status |-> "resolved",
        value |-> IF Truthy(resp.text) THEN resp.text ELSE ChatFallback]

\* AppendTurn that puts the new turn first.
AppendTurnFirst(prev, msg) == <<msg>> \o prev

\* setMessages(prev => [...prev, msg])
AppendTurn(prev, msg) == Append(prev, msg)

\* ReplyTurns without the catch block.
ReplyTurnsUncaught(prev, outcome, id) ==
  IF outcome.status = "resolved"
  THEN AppendTurn(prev, ChatMessage(id, "model", outcome.value))
  ELSE prev

\* handleSend after its await: the turns after the try or the catch block.
ReplyTurns(prev, outcome, id) ==
  IF outcome.status = "resolved"
  THEN AppendTurn(prev, ChatMessage(id, "model", outcome.value))
  ELSE AppendTurn(prev, ChatMessage(id, "model", ChatErrorText))

\* ChatHistory that leaves out the oldest turn.
ChatHistoryTail(msgs) ==
  [i \in 1..(Len(msgs) - 1) |->
     [role |-> msgs[i + 1].role, text |-> msgs[i + 1].text]]

\* messages.map(m => ({ role: m.role, parts: [{ text: m.text }] }))
ChatHistory(msgs) ==
  [i \in 1..Len(msgs) |-> [role |-> msgs[i].role, text |-> msgs[i].text]]

\* The input field's onChange, and recognition.onresult.
ChatSetInput(v) ==
  /\ v # chatInput
  /\ chatInput' = v
  /\ chatSettled' = NoChatSettled
  /\ UNCHANGED <<messages, chatLoading, chatCalls, nSends>>
  /\ UNCHANGED nonChatVars

\* handleSend up to `await sendChatMessage`; with a blank input it returns
\* at once.  The history handed over is the messages of the render that
\* created the handler.
HandleSend ==
  /\ Trim(chatInput) # ""
  /\ nSends < MaxSends
  /\ nSends' = nSends + 1
  /\ messages' =
       AppendTurn(messages, ChatMessage(2 * (nSends + 1), "user", chatInput))
  /\ chatInput' = ""
  /\ chatLoading' = TRUE
  /\ chatCalls' = Append(chatCalls,
       [id |-> 2 * (nSends + 1), message |-> chatInput,
        history |-> ChatHistory(messages)])
  /\ chatSettled' = NoChatSettled
  /\ UNCHANGED nonChatVars

\* The Send button, disabled while the input is blank or loading is true.
ChatSendClick ==
  /\ ~(Trim(chatInput) = "" \/ chatLoading)
  /\ HandleSend

\* Enter in the input field: `e.key === 'Enter' && handleSend()`.
ChatEnterKey == HandleSend

\* handleSend after `await sendChatMessage`.
ChatComplete(c, resp) ==
  /\ chatCalls' = RemoveAt(chatCalls, c)
  /\ messages' = ReplyTurns(messages, SendChatMessage(resp), chatCalls[c].id + 1)
  /\ chatLoading' = FALSE
  /\ chatSettled' =
       [id |-> chatCalls[c].id, resp |-> resp,
        status |-> SendChatMessage(resp).status,
        value |-> SendChatMessage(resp).value]
  /\ UNCHANGED <<chatInput, nSends>>
  /\ UNCHANGED nonChatVars

\* ------------------------------------------------------- decodeAudioData
\* Bytes are numbers 0..255; the streams drawn mix the extremes of both bytes.
PcmBytes == {0, 1, 127, 128, 255}
ChannelCounts == {1, 2}
PcmScale == 32768

\* Int16 that reads the two bytes as an unsigned number.
Int16Unsigned(lo, hi) == lo + 256 * hi

\* One element of an Int16Array over the bytes lo, hi (little-endian).
Int16(lo, hi) ==
  IF lo + 256 * hi >= 32768 THEN lo + 256 * hi - 65536 ELSE lo + 256 * hi

\* new Int16Array(data.buffer), for a buffer of even length.
Int16Array(data) ==
  [i \in 1..(Len(data) \div 2) |-> Int16(data[2 * i - 1], data[2 * i])]

\* `dataInt16[...] / 32768.0`: the amplitude, kept as a fraction.
Amplitude(sample) == [num |-> sample, den |-> PcmScale]

\* The call threw.
Thrown == [status |-> "thrown", channels |-> <<>>, reads |-> {}]

\* The indices of dataInt16 (counted from 0) that the loops of
\* decodeAudioData read: `i < frameCount` compares with the quotient before
\* createBuffer takes its integer part, so i runs up to the quotient rounded
\* up, less one.
LoopReads(length, numChannels) ==
  {i * numChannels + channel :
     i \in 0..(((length + numChannels - 1) \div numChannels) - 1),
     channel \in 0..(numChannels - 1)}

\* decodeAudioData that rejects a stream whose samples are not whole frames.
DecodeAudioDataStrict(data, numChannels) ==
  IF Len(data) % 2 # 0 \/ (Len(data) \div 2) % numChannels # 0 THEN Thrown
  ELSE LET dataInt16 == Int16Array(data)
           frameCount == Len(dataInt16) \div numChannels
       IN IF frameCount = 0 THEN Thrown
          ELSE [status |-> "buffer",
                channels |->
                  [c \in 1..numChannels |->
                     [i \in 1..frameCount |->
                        Amplitude(dataInt16[(i - 1) * numChannels + c])]],
                reads |-> LoopReads(Len(dataInt16), numChannels)]

\* decodeAudioData.  new Int16Array throws a RangeError on a buffer of odd
\* length.  createBuffer takes the integer part of frameCount and throws a
\* NotSupportedError when that is 0; writes past the end of a channel are
\* dropped, and a read past the end of dataInt16 yields undefined without
\* throwing.  Channel c, frame i (both counted from 1) holds sample
\* (i - 1) * numChannels + c.
DecodeAudioData(data, numChannels) ==
  IF Len(data) % 2 # 0 THEN Thrown
  ELSE LET dataInt16 == Int16Array(data)
           frameCount == Len(dataInt16) \div numChannels
       IN IF frameCount = 0 THEN Thrown
          ELSE [status |-> "buffer",
                channels |->
                  [c \in 1..numChannels |->
                     [i \in 1..frameCount |->
                        Amplitude(dataInt16[(i - 1) * numChannels + c])]],
                reads |-> LoopReads(Len(dataInt16), numChannels)]

\* decodeBase64, one turn of its loop: `bytes[i] = binaryString.charCodeAt(i)`.
DecodeBase64Byte(b) ==
  /\ pcmOut = NoBuffer
  /\ Len(pcmData) < 2 * MaxSamples
  /\ pcmData' = Append(pcmData, b)
  /\ UNCHANGED <<pcmChannels, pcmOut>>
  /\ UNCHANGED nonPcmVars

\* A call of decodeAudioData on the decoded bytes.
CallDecodeAudioData(numChannels) ==
  /\ pcmOut = NoBuffer
  /\ pcmChannels' = numChannels
  /\ pcmOut' = DecodeAudioData(pcmData, numChannels)
  /\ UNCHANGED pcmData
  /\ UNCHANGED nonPcmVars

\* ------------------------------------------------------------ behaviours
\* The Dashboard and the App under every interleaving of clicks, typing,
\* transport replies, microphone grants and audio events.
Next ==
  \/ \E v \in InputValues : SetInput(v)
  \/ Login
  \/ Logout
  \/ PlayClick
  \/ ToggleTamil
  \/ \E t \in 1..Len(tts), o \in SpeechOutcomes : TtsComplete(t, o)
  \/ \E s \in 1..Len(sources) : SourceEnded(s)
  \/ HandleAnalyze
  \/ \E c \in 1..Len(calls), r \in DashboardResponses : TypedComplete(c, r)
  \/ VoiceClick
  \/ \E r \in 1..Len(recorders), g \in BOOLEAN : GetUserMediaComplete(r, g)
  \/ \E r \in 1..Len(recorders) : RecorderOnStop(r)
  \/ \E r \in 1..Len(recorders) : VoiceReaderLoadEnd(r)
  \/ \E c \in 1..Len(calls), r \in DashboardResponses : VoiceComplete(c, r)

Spec == Init /\ [][Next]_vars

\* The voice agent with the events the browser is bound to deliver: a
\* MediaRecorder that was stopped fires its stop event.
NextVoice ==
  \/ VoiceClick
  \/ \E r \in 1..Len(recorders), g \in BOOLEAN : GetUserMediaComplete(r, g)
  \/ \E r \in 1..Len(recorders) : RecorderOnStop(r)
  \/ \E r \in 1..Len(recorders) : VoiceReaderLoadEnd(r)
  \/ \E c \in 1..Len(calls), r \in DashboardResponses : VoiceComplete(c, r)
  \/ \E t \in 1..Len(tts), o \in SpeechOutcomes : TtsComplete(t, o)
  \/ \E s \in 1..Len(sources) : SourceEnded(s)

SpecVoice ==
  /\ Init
  /\ [][NextVoice]_vars
  /\ \A r \in 1..MaxAsync :
       WF_vars(r <= Len(recorders) /\ RecorderOnStop(r))

\* The typed and the voice analysis with what the runtime is bound to
\* deliver: the transport settles every call and every synthesis, a stopped
\* MediaRecorder fires its stop event, and a FileReader its loadend.
NextLoading ==
  \/ HandleAnalyze
  \/ \E c \in 1..Len(calls), r \in DashboardResponses : TypedComplete(c, r)
  \/ VoiceClick
  \/ \E r \in 1..Len(recorders), g \in BOOLEAN : GetUserMediaComplete(r, g)
  \/ \E r \in 1..Len(recorders) : RecorderOnStop(r)
  \/ \E r \in 1..Len(recorders) : VoiceReaderLoadEnd(r)
  \/ \E c \in 1..Len(calls), r \in DashboardResponses : VoiceComplete(c, r)
  \/ \E t \in 1..Len(tts), o \in SpeechOutcomes : TtsComplete(t, o)
  \/ \E s \in 1..Len(sources) : SourceEnded(s)

SpecLoading ==
  /\ Init
  /\ [][NextLoading]_vars
  /\ WF_vars(\E c \in 1..Len(calls), r \in DashboardResponses :
               TypedComplete(c, r))
  /\ WF_vars(\E c \in 1..Len(calls), r \in DashboardResponses :
               VoiceComplete(c, r))
  /\ WF_vars(\E t \in 1..Len(tts), o \in SpeechOutcomes : TtsComplete(t, o))
  /\ WF_vars(\E r \in 1..Len(recorders) : RecorderOnStop(r))
  /\ WF_vars(\E r \in 1..Len(recorders) : VoiceReaderLoadEnd(r))

\* The clients of analyzeClinicalContent: the Dashboard's typed analysis with
\* its attachment, and any other caller of the exported function.
NextAnalyze ==
  \/ \E v \in InputValues : SetInput(v)
  \/ \E f \in Files : HandleFileChange(f)
  \/ FileReaderLoadEnd
  \/ RemoveAttachment
  \/ HandleAnalyze
  \/ \E c \in 1..Len(calls), r \in ServiceResponses : TypedComplete(c, r)
  \/ \E d \in DirectInputs : DirectAnalyze(d[1], d[2])
  \/ \E c \in 1..Len(calls), r \in ServiceResponses : DirectComplete(c, r)

SpecAnalyze == Init /\ [][NextAnalyze]_vars

\* HighlightedText rendered once with every narrative and entity list.
NextAnnotator ==
  \/ \E txt \in Strings(MaxNarr) : RenderNarrative(txt)
  \/ \E entity \in Entities : AddEntity(entity)
  \/ Passthrough
  \/ SortEntities
  \/ ProcessEntity
  \/ RenderParts

SpecAnnotator == Init /\ [][NextAnnotator]_vars

\* One ChatBot session under typing, Send clicks, Enter presses and the
\* transport's answers.
NextChat ==
  \/ \E v \in ChatInputs : ChatSetInput(v)
  \/ ChatSendClick
  \/ ChatEnterKey
  \/ \E c \in 1..Len(chatCalls), r \in ChatResponses : ChatComplete(c, r)

SpecChat == Init /\ [][NextChat]_vars

\* decodeAudioData called once with every byte stream and channel count.
NextDecode ==
  \/ \E b \in PcmBytes : DecodeBase64Byte(b)
  \/ \E c \in ChannelCounts : CallDecodeAudioData(c)

SpecDecode == Init /\ [][NextDecode]_vars

\* ------------------------------------------------------------- properties
PlayingSources == {s \in 1..Len(sources) : sources[s] = "playing"}

\* C1: at most one audio source is started and not yet ended at any time,
\* whatever the interleaving of playTTS invocations; a source that was
\* started is stopped before the next one starts.
C1_SinglePlayback == Cardinality(PlayingSources) <= 1

ActiveRecordings ==
  {r \in 1..Len(recorders) :
     recorders[r].state = "recording" /\ recorders[r].stream = "live"}

\* C2: at most one recording session (a live microphone stream with a started
\* MediaRecorder) is active at any time, whatever the clicks on the voice
\* button.
C2_SingleRecording == Cardinality(ActiveRecordings) <= 1

\* A request with nothing to analyse: no attachment, and a text that is null
\* or empty; for handleAnalyze also a text of blanks only.
EmptyRequest(call) ==
  /\ call.att = NoAttachment
  /\ \/ call.text \in {NullText, ""}
     \/ call.caller = "typed" /\ call.text = " "

\* C3: analyzeClinicalContent called with empty or null text and no
\* attachment rejects without a call to the generation transport, and
\* handleAnalyze with blank input and no attachment issues no call: no such
\* request is ever awaiting the transport, and one that settles was refused
\* before dispatch.
C3_InputGuard ==
  /\ \A c \in 1..Len(calls) : ~EmptyRequest(calls[c])
  /\ (settled.caller # "none" /\ EmptyRequest(settled)) =>
       (~settled.dispatched /\ settled.status = "rejected"
          /\ settled.value = NullResult)

C3_Witness ==
  /\ settled.caller = "direct"
  /\ settled.text = ""
  /\ settled.att = NoAttachment
  /\ settled.status = "rejected"

\* The top-level fields an AnalysisResult must carry to be valid.
ResultRequired == SchemaRequired \ {"transcript"}

\* C4: a payload that parses as JSON but lacks a required top-level field
\* makes analyzeClinicalContent reject; no partially populated result is
\* returned.
C4_SchemaGate ==
  (settled.resp.kind = "object" /\ ~(ResultRequired \subseteq settled.resp.fields))
    => (settled.status = "rejected" /\ settled.value = NullResult)

\* C5: when the transport call fails, the payload is empty or the payload
\* does not parse, analyzeClinicalContent rejects and produces no result.
C5_NoFabricatedResult ==
  (settled.dispatched /\ settled.resp.kind \in {"error", "empty", "malformed"})
    => (settled.status = "rejected" /\ settled.value = NullResult)

C5_Witness ==
  /\ settled.dispatched
  /\ settled.resp.kind = "malformed"
  /\ settled.status = "rejected"

\* C6: a step in which handleAnalyze's analysis rejects leaves the displayed
\* result and the stored history as they were.
C6_FailurePreservesState ==
  [][(settled'.caller = "typed" /\ settled'.status = "rejected")
       => (result' = result /\ history' = history)]_vars

C6_Witness ==
  /\ settled.caller = "typed"
  /\ settled.status = "rejected"
  /\ result # NullResult
  /\ history # <<>>

\* The texts of the segments, joined in output order.
RECURSIVE ConcatTexts(_)
ConcatTexts(ps) ==
  IF ps = <<>> THEN <<>> ELSE Head(ps).text \o ConcatTexts(Tail(ps))

\* Offset (0-based) of segment i in the joined text.
PartStart(ps, i) == Len(ConcatTexts(SubSeq(ps, 1, i - 1)))

\* pat occurs in str at offset p, up to letter case.
Occurs(pat, str, p) ==
  /\ p + Len(pat) <= Len(str)
  /\ ToLowerCase(SubSeq(str, p + 1, p + Len(pat))) = ToLowerCase(pat)

ProperSubstring(short, long) ==
  /\ Len(short) < Len(long)
  /\ \E p \in 0..Len(long) : Occurs(short, long, p)

\* Segment of ps that covers exactly the n characters at offset p and is
\* tagged with entity.
TaggedAt(ps, p, n, entity) ==
  \E i \in 1..Len(ps) :
    /\ ps[i].type = "match"
    /\ ps[i].entity = entity
    /\ PartStart(ps, i) = p
    /\ Len(ps[i].text) = n

\* The n characters at offset p overlap the m characters at offset q.
Overlap(p, n, q, m) == p < q + m /\ q < p + n

\* C7: joined in output order, the texts of the segments are the narrative,
\* for every narrative and entity list (entities that overlap, repeat or have
\* an empty text included), after every turn of the loop and at the end.
C7_Concatenation == hpc \in {"loop", "done"} => ConcatTexts(parts) = text

C7_Witness ==
  /\ hpc = "done"
  /\ \E i \in 1..Len(entities) : entities[i].text = <<>>
  /\ \E i \in 1..Len(parts) : parts[i].type = "match"
  /\ \E i \in 1..Len(parts) : parts[i].type = "text"

\* The occurrence at offset p of the text of entities[i] is one matched
\* segment tagged with entities[i].
OccurrenceTagged(i, p) ==
  TaggedAt(parts, p, Len(entities[i].text), entities[i])

\* C8 as stated: when one entity's text is a proper substring, up to case, of
\* another's, every occurrence of the longer text in the narrative is exactly
\* one matched segment tagged with the longer entity, in whatever order the
\* entities were supplied.
C8_EveryOccurrence ==
  hpc = "done" =>
    \A i, j \in 1..Len(entities) :
      (i # j /\ entities[j].text # <<>>
         /\ ProperSubstring(entities[j].text, entities[i].text)) =>
        \A p \in 0..Len(text) :
          Occurs(entities[i].text, text, p) => OccurrenceTagged(i, p)

\* entities[i] is longer than every other entity of the list.
Longest(i) ==
  \A m \in 1..Len(entities) :
    m # i => Len(entities[m].text) < Len(entities[i].text)

\* The occurrence of pat at offset p is the leftmost one, or it overlaps no
\* other occurrence of pat.
Unobstructed(pat, p) ==
  \/ \A q \in 0..Len(text) : Occurs(pat, text, q) => p <= q
  \/ \A q \in 0..Len(text) :
       (q # p /\ Occurs(pat, text, q)) => ~Overlap(p, Len(pat), q, Len(pat))

\* C8: when one entity's text is a proper substring, up to case, of another's
\* and the longer entity is longer than every other entity, the leftmost
\* occurrence of the longer text, and every occurrence that overlaps no other
\* occurrence of it, is exactly one matched segment tagged with the longer
\* entity, in whatever order the entities were supplied.
C8_LongestMatch ==
  hpc = "done" =>
    \A i, j \in 1..Len(entities) :
      (i # j /\ ProperSubstring(entities[j].text, entities[i].text)
         /\ Longest(i)) =>
        \A p \in 0..Len(text) :
          (Occurs(entities[i].text, text, p)
             /\ Unobstructed(entities[i].text, p)) => OccurrenceTagged(i, p)

C8_Witness ==
  /\ hpc = "done"
  /\ Len(entities) = 2
  /\ entities[1].text # <<>>
  /\ ProperSubstring(entities[1].text, entities[2].text)
  /\ \E p \in 0..Len(text) :
       Occurs(entities[2].text, text, p) /\ OccurrenceTagged(2, p)

\* Every matched segment holds the narrative's own characters at its place,
\* and they are the entity's text up to case.
OwnCharacters ==
  \A i \in 1..Len(parts) :
    parts[i].type = "match" =>
      /\ parts[i].text =
           SubSeq(text, PartStart(parts, i) + 1,
                  PartStart(parts, i) + Len(parts[i].text))
      /\ ToLowerCase(parts[i].text) = ToLowerCase(parts[i].entity.text)

\* C9 as stated: every occurrence of an entity's (non-empty) text in the
\* narrative, whatever its letter case, is a matched segment of that entity,
\* and a matched segment's text is the narrative's own characters.
C9_EveryOccurrence ==
  hpc = "done" =>
    /\ OwnCharacters
    /\ \A i \in 1..Len(entities), p \in 0..Len(text) :
         (entities[i].text # <<>> /\ Occurs(entities[i].text, text, p))
           => OccurrenceTagged(i, p)

\* The occurrence of the text of entities[i] at offset p overlaps no other
\* occurrence of the non-empty text of an entity of the list.
Isolated(i, p) ==
  \A j \in 1..Len(entities), q \in 0..Len(text) :
    (<<j, q>> # <<i, p>> /\ entities[j].text # <<>>
       /\ Occurs(entities[j].text, text, q))
      => ~Overlap(p, Len(entities[i].text), q, Len(entities[j].text))

\* C9: every occurrence of an entity's non-empty text in the narrative,
\* whatever its letter case, that overlaps no other occurrence of an entity's
\* text is a matched segment of that entity, and every matched segment's text
\* is the narrative's own characters at its place, not the entity's stored
\* text.
C9_CasePreserving ==
  hpc = "done" =>
    /\ OwnCharacters
    /\ \A i \in 1..Len(entities), p \in 0..Len(text) :
         (entities[i].text # <<>> /\ Occurs(entities[i].text, text, p)
            /\ Isolated(i, p)) => OccurrenceTagged(i, p)

C9_Witness ==
  /\ hpc = "done"
  /\ \E i \in 1..Len(parts) :
       /\ parts[i].type = "match"
       /\ parts[i].text # parts[i].entity.text
       /\ \E e \in 1..Len(entities) :
            parts[i].entity = entities[e] /\ Isolated(e, PartStart(parts, i))

\* C10: with no entities, or with an empty narrative, the narrative comes
\* back unchanged as one plain segment.
C10_Passthrough ==
  (hpc = "done" /\ (Len(entities) = 0 \/ text = <<>>))
    => parts = <<TextPart(text)>>

C10_Witness ==
  /\ hpc = "done"
  /\ Len(entities) = 0
  /\ text # <<>>
  /\ parts = <<TextPart(text)>>

\* Number of 16-bit samples in the decoded stream.
SampleCount == Len(pcmData) \div 2

\* Sample n (counted from 0) as a signed 16-bit number: the unsigned value of
\* its two bytes, less 65536 when the sign bit of the high byte is set.
SignedSample(n) ==
  pcmData[2 * n + 1] + 256 * pcmData[2 * n + 2]
    - (IF pcmData[2 * n + 2] >= 128 THEN 65536 ELSE 0)

\* The buffer has SampleCount / pcmChannels frames per channel, frame i of
\* channel c is sample i * pcmChannels + c over 32768, and lies in [-1, 1).
DecodedExactly ==
  /\ pcmOut.status = "buffer"
  /\ Len(pcmOut.channels) = pcmChannels
  /\ \A c \in 0..(pcmChannels - 1) :
       /\ Len(pcmOut.channels[c + 1]) * pcmChannels = SampleCount
       /\ \A i \in 0..(Len(pcmOut.channels[c + 1]) - 1) :
            LET a == pcmOut.channels[c + 1][i + 1] IN
              /\ a.den = 32768
              /\ a.num = SignedSample(i * pcmChannels + c)
              /\ -a.den <= a.num /\ a.num < a.den

\* The bytes are whole 16-bit samples and pcmChannels divides their number.
WholeFrames ==
  /\ Len(pcmData) % 2 = 0
  /\ SampleCount % pcmChannels = 0

\* C11 as stated: for every stream of N 16-bit samples and every channel
\* count C dividing N, N = 0 included, decodeAudioData yields N / C frames
\* per channel, frame i of channel c being sample i * C + c over 32768.
C11_EveryStream ==
  (pcmOut # NoBuffer /\ WholeFrames) => DecodedExactly

\* C11: for every stream of N >= 1 16-bit samples and every channel count C
\* dividing N, decodeAudioData yields N / C frames per channel, frame i of
\* channel c is sample i * C + c over 32768, and every amplitude lies in
\* [-1, 1).
C11_PcmDecode ==
  (pcmOut # NoBuffer /\ WholeFrames /\ SampleCount >= 1) => DecodedExactly

C11_Witness ==
  /\ pcmOut.status = "buffer"
  /\ pcmChannels = 2
  /\ SampleCount = 2
  /\ pcmOut.channels[1][1].num = -32768
  /\ pcmOut.channels[2][1].num = 32767

\* prev is a prefix of next.
IsPrefix(prev, next) ==
  /\ Len(prev) <= Len(next)
  /\ SubSeq(next, 1, Len(prev)) = prev

\* C14: in a step in which sendChatMessage rejects during handleSend, the
\* message history grows by exactly one turn, a model-role fallback, every
\* earlier turn stays, and loading is false afterwards, so the Send button
\* and the Enter key accept the next non-blank input.
C14_ChatDegradation ==
  [][chatSettled'.status = "rejected" =>
       /\ Len(messages') = Len(messages) + 1
       /\ IsPrefix(messages, messages')
       /\ messages'[Len(messages')].role = "model"
       /\ messages'[Len(messages')].text = ChatErrorText
       /\ chatLoading' = FALSE]_vars

\* A send has failed, a later send was accepted, and it failed as well.
C14_Witness ==
  /\ chatSettled.status = "rejected"
  /\ ~chatLoading
  /\ \E i \in 1..(Len(messages) - 2) :
       /\ messages[i].text = ChatErrorText
       /\ messages[i + 1].role = "user"
  /\ messages[Len(messages)].text = ChatErrorText

\* C15: sendChatMessage resolves to the model's reply text when that is
\* non-empty and to "I could not generate a response." when it is empty or
\* absent; it never resolves to an empty string.
C15_ReplyNeverEmpty ==
  chatSettled.status = "resolved" =>
    /\ chatSettled.value # ""
    /\ chatSettled.value # NullText
    /\ chatSettled.value =
         (IF chatSettled.resp.text \in {"", NullText}
          THEN "I could not generate a response."
          ELSE chatSettled.resp.text)

C15_Witness ==
  /\ chatSettled.status = "resolved"
  /\ chatSettled.resp.text = ""
  /\ chatSettled.value = "I could not generate a response."

\* C16: every step leaves the earlier message history as a prefix of the
\* later one, and the user turn of every send awaiting the model is already
\* in the history.
C16_AppendOnly ==
  /\ [][IsPrefix(messages, messages')]_vars
  /\ [](\A c \in 1..Len(chatCalls) :
          \E i \in 1..Len(messages) :
            /\ messages[i].id = chatCalls[c].id
            /\ messages[i].role = "user"
            /\ messages[i].text = chatCalls[c].message)

C16_Witness ==
  /\ Len(chatCalls) = 1
  /\ Len(messages) = 6
  /\ \E i \in 1..Len(messages) : messages[i].text = ChatErrorText
  /\ \E i \in 1..Len(messages) : messages[i].text = "reply"

\* C17: at most one sendChatMessage call of the session is in flight at any
\* time, whatever the Send clicks and Enter presses.
C17_SerializedSends == Len(chatCalls) <= 1

\* C12: every request names gemini-3-pro-preview exactly when it carries an
\* attachment of an image/* MIME type, and gemini-2.5-flash for audio, PDF
\* and text-only requests; the response schema is the same for all.
C12_ModelRouting ==
  \A c \in 1..Len(calls) :
    /\ calls[c].model =
         (IF calls[c].att \in {<<"image", "png">>, <<"image", "jpeg">>,
                                <<"image", "webp">>}
          THEN "gemini-3-pro-preview" ELSE "gemini-2.5-flash")
    /\ calls[c].schema = SchemaRequired

C12_Witness ==
  /\ Len(calls) = 2
  /\ calls[1].att = <<"image", "png">>
  /\ calls[1].model = "gemini-3-pro-preview"
  /\ calls[2].att = <<"audio", "wav">>
  /\ calls[2].model = "gemini-2.5-flash"

\* The file is over 5 MB, or its MIME type is not an accepted one.
InvalidFile(file) ==
  \/ file.size > 5 * 1024 * 1024
  \/ file.type \notin {<<"application", "pdf">>, <<"image", "jpeg">>,
                        <<"image", "png">>, <<"image", "webp">>}

\* C20: selecting a file over 5 MB, or of a MIME type other than
\* application/pdf, image/jpeg, image/png and image/webp, leaves the
\* attachment as it was, starts no read and no analysis call, and reports an
\* error.
C20_AttachmentValidation ==
  [][\A f \in Files :
       (InvalidFile(f) /\ HandleFileChange(f)) =>
         /\ attachment' = attachment
         /\ pendingFile' = NoFile
         /\ calls' = calls
         /\ nCalls' = nCalls
         /\ toast' \in {"File too large (Max 5MB)",
                        "Only PDF and Images supported"}]_vars

C20_Witness ==
  /\ toast = "File too large (Max 5MB)"
  /\ attachment = <<"image", "png">>
  /\ pendingFile = NoFile

\* detectedLanguage is present and holds "tamil" in some letter case.
ContainsTamil(lang) ==
  /\ lang # <<"<absent>">>
  /\ \E p \in 0..(Len(lang) - 5) :
       /\ lang[p + 1] \in {"t", "T"}
       /\ lang[p + 2] \in {"a", "A"}
       /\ lang[p + 3] \in {"m", "M"}
       /\ lang[p + 4] \in {"i", "I"}
       /\ lang[p + 5] \in {"l", "L"}

\* C13: when a voice analysis has resolved, speech synthesis has been invoked
\* on tamilAnalysis.summary with Puck if detectedLanguage is present and
\* contains "tamil" in any letter case, and on summary with Kore otherwise.
C13_LanguageRouting ==
  (settled.caller = "voice" /\ settled.status = "resolved") =>
    /\ Len(tts) >= 1
    /\ tts[Len(tts)].awaited
    /\ IF ContainsTamil(settled.value.lang)
       THEN /\ tts[Len(tts)].text = "tamilAnalysis.summary"
            /\ tts[Len(tts)].voice = "Puck"
       ELSE /\ tts[Len(tts)].text = "summary"
            /\ tts[Len(tts)].voice = "Kore"

\* C18: a step in which a playing source ends on its own leaves the playing
\* flag false and the source handle empty.
C18_NaturalEndClears ==
  [][\A s \in 1..Len(sources) :
       (sources[s] = "playing" /\ sources'[s] = "ended") =>
         (isPlayingAudio' = FALSE /\ audioSource' = 0)]_vars

\* A source has ended on its own and a later playback is the only one.
C18_Witness ==
  /\ Len(sources) = 2
  /\ sources[1] = "ended"
  /\ sources[2] = "playing"
  /\ isPlayingAudio
  /\ audioSource = 2

\* C19: once a recording session's recorder is stopped, the microphone
\* stream opened for that session is eventually released, whether the voice
\* analysis that follows succeeds or fails.
C19_StreamReleased ==
  \A r \in 1..MaxAsync :
    (r <= Len(recorders) /\ recorders[r].state = "stopping")
      ~> (r <= Len(recorders) /\ recorders[r].stream = "stopped")

\* The stream of a stopped session is released and its analysis has failed.
C19_Witness ==
  /\ settled.caller = "voice"
  /\ settled.status = "rejected"
  /\ \E r \in 1..Len(recorders) :
       recorders[r].state = "analyzing" /\ recorders[r].stream = "stopped"

\* C21: when the analysis call of handleAnalyze that carried an attachment
\* has completed, with success or with failure, no attachment is held any
\* more.
C21_AttachmentDiscarded ==
  (settled.caller = "typed" /\ settled.dispatched
     /\ settled.att # NoAttachment) => attachment = NoAttachment

C23_ChatRequest ==
  \A c \in 1..Len(chatCalls) :
    \E i \in 1..Len(messages) :
      /\ messages[i].id = chatCalls[c].id
      /\ messages[i].role = "user"
      /\ chatCalls[c].message = messages[i].text
      /\ Len(chatCalls[c].history) = i - 1
      /\ \A j \in 1..(i - 1) :
           /\ chatCalls[c].history[j].role = messages[j].role
           /\ chatCalls[c].history[j].text = messages[j].text

\* The third send of a session is awaiting the model; fallback turns are
\* part of the history it carries.
C23_Witness ==
  /\ Len(chatCalls) = 1
  /\ Len(chatCalls[1].history) = 5
  /\ chatCalls[1].history[3].text = "I encountered an error. Please try again."
  /\ chatCalls[1].history[5].text = "I could not generate a response."

\* entities[i] and entities[j] have the same text up to letter case.
SameText(i, j) == ToLowerCase(entities[i].text) = ToLowerCase(entities[j].text)

\* entities[i] is the first of the input list with its text.
FirstWithText(i) == \A m \in 1..(i - 1) : ~SameText(m, i)

\* No segment is tagged with entity.
TagsNothing(entity) ==
  \A n \in 1..Len(parts) : parts[n].type = "match" => parts[n].entity # entity

\* C24 as stated: when two entities have the same text up to case, every
\* occurrence of that text in the narrative is a segment tagged with the one
\* that comes first in the input list, and the later one tags no segment.
C24_EveryOccurrence ==
  hpc = "done" =>
    \A i, j \in 1..Len(entities) :
      (i < j /\ FirstWithText(i) /\ SameText(i, j)
         /\ entities[i].text # <<>> /\ entities[i] # entities[j]) =>
        /\ \A p \in 0..Len(text) :
             Occurs(entities[i].text, text, p) => OccurrenceTagged(i, p)
        /\ TagsNothing(entities[j])

\* The occurrence of the text of entities[i] at offset p overlaps no
\* occurrence of an entity's non-empty text other than the occurrences of
\* that same text at p.
IsolatedText(i, p) ==
  \A j \in 1..Len(entities), q \in 0..Len(text) :
    (entities[j].text # <<>> /\ Occurs(entities[j].text, text, q)
       /\ ~(q = p /\ SameText(i, j)))
      => ~Overlap(p, Len(entities[i].text), q, Len(entities[j].text))

\* C24: when two entities have the same non-empty text up to case, every
\* occurrence of that text that overlaps no other occurrence of an entity's
\* text is a segment tagged with the one that comes first in the input list,
\* and the later one tags no segment.
C24_DuplicateLiterals ==
  hpc = "done" =>
    \A i, j \in 1..Len(entities) :
      (i < j /\ FirstWithText(i) /\ SameText(i, j)
         /\ entities[i].text # <<>> /\ entities[i] # entities[j]) =>
        /\ \A p \in 0..Len(text) :
             (Occurs(entities[i].text, text, p) /\ IsolatedText(i, p))
               => OccurrenceTagged(i, p)
        /\ TagsNothing(entities[j])

C24_Witness ==
  /\ hpc = "done"
  /\ Len(entities) = 2
  /\ entities[1].text # <<>>
  /\ SameText(1, 2)
  /\ entities[1].type # entities[2].type
  /\ \E n \in 1..Len(parts) : parts[n].entity = entities[1]
  /\ TagsNothing(entities[2])

\* C25: one turn of the loop over the entities leaves every segment that
\* is already tagged in the list, with its text, its entity and its place in
\* the narrative, whether or not the turn's entity occurs inside it.
C25_TaggedFrozen ==
  [][\A n \in 1..Len(parts) :
       (hpc = "loop" /\ parts[n].type = "match") =>
         \E m \in 1..Len(parts') :
           /\ parts'[m] = parts[n]
           /\ PartStart(parts', m) = PartStart(parts, n)]_vars

\* A tagged segment holds the text of an entity processed after it.
C25_Witness ==
  /\ hpc = "done"
  /\ Len(sortedEntities) = 2
  /\ sortedEntities[2].text # <<>>
  /\ \E n \in 1..Len(parts) :
       /\ parts[n].type = "match"
       /\ parts[n].entity = sortedEntities[1]
       /\ \E p \in 0..Len(parts[n].text) :
            Occurs(sortedEntities[2].text, parts[n].text, p)
       /\ Len(sortedEntities[2].text) < Len(parts[n].text)

\* C27: after annotating, no plain segment holds an occurrence, in any
\* letter case, of the non-empty text of an entity, and every tagged segment
\* is non-empty and equal to its entity's text up to letter case.
C27_Completeness ==
  hpc = "done" =>
    \A n \in 1..Len(parts) :
      IF parts[n].type = "text"
      THEN \A i \in 1..Len(entities), p \in 0..Len(parts[n].text) :
             entities[i].text # <<>>
               => ~Occurs(entities[i].text, parts[n].text, p)
      ELSE /\ parts[n].text # <<>>
           /\ ToLowerCase(parts[n].text) = ToLowerCase(parts[n].entity.text)

\* Plain and tagged segments side by side, one tagged in another letter case
\* than its entity's.
C27_Witness ==
  /\ hpc = "done"
  /\ Len(entities) = 2
  /\ Len(parts) = 3
  /\ parts[1].type = "text"
  /\ parts[2].type = "match"
  /\ parts[2].text # parts[2].entity.text
  /\ parts[3].type = "match"

\* The buffer has the whole frames of the stream and nothing else: the
\* integer part of SampleCount / pcmChannels frames per channel, frame i of
\* channel c being sample i * pcmChannels + c over 32768.
DecodedWholeFrames ==
  /\ pcmOut.status = "buffer"
  /\ Len(pcmOut.channels) = pcmChannels
  /\ \A c \in 0..(pcmChannels - 1) :
       /\ Len(pcmOut.channels[c + 1]) = SampleCount \div pcmChannels
       /\ \A i \in 0..(Len(pcmOut.channels[c + 1]) - 1) :
            /\ pcmOut.channels[c + 1][i + 1].den = 32768
            /\ pcmOut.channels[c + 1][i + 1].num
                 = SignedSample(i * pcmChannels + c)

\* The bytes are whole 16-bit samples whose number pcmChannels does not
\* divide.
TrailingSamples ==
  /\ Len(pcmData) % 2 = 0
  /\ SampleCount % pcmChannels # 0

\* C26 as stated: whenever the number of 16-bit samples is not a multiple
\* of the channel count, decodeAudioData succeeds with the integer part of
\* samples / channels frames per channel and reads nothing past the input.
C26_EveryRemainder ==
  (pcmOut # NoBuffer /\ TrailingSamples) =>
    /\ DecodedWholeFrames
    /\ \A n \in pcmOut.reads : n < SampleCount

\* C26: when the number of 16-bit samples is not a multiple of the channel
\* count and is at least the channel count, decodeAudioData succeeds with
\* the integer part of samples / channels frames per channel, made of the
\* samples of the whole frames; the remainder samples reach no frame, and
\* neither does anything the loop reads after them.
C26_TrailingTruncation ==
  (pcmOut # NoBuffer /\ TrailingSamples /\ SampleCount >= pcmChannels) =>
    DecodedWholeFrames

\* Three samples on two channels: one frame, the third sample dropped, and
\* index 3 read past the three samples.
C26_Witness ==
  /\ pcmOut.status = "buffer"
  /\ pcmChannels = 2
  /\ SampleCount = 3
  /\ Len(pcmData) = 6
  /\ Len(pcmOut.channels[1]) = 1
  /\ Len(pcmOut.channels[2]) = 1
  /\ 3 \in pcmOut.reads

\* C28: once a typed or a voice analysis has settled, resolved or
\* rejected, the loading flag is false or becomes false later on.
C28_LoadingClears ==
  (settled.caller \in {"typed", "voice"}) ~> ~loading

\* C29: in every reachable state of the dashboard isPlayingAudio is true
\* exactly when a started source is still playing, and then audioSource is
\* the handle of the one source that plays.
C29_PlayingFlag ==
  /\ isPlayingAudio <=> PlayingSources # {}
  /\ isPlayingAudio => PlayingSources = {audioSource}

\* C30: a typed or voice analysis that completes successfully puts one
\* item in front of the history and keeps the items below it when a user is
\* logged in, and leaves the history as it is when none is.
C30_NoLostHistory ==
  [][(Len(calls') < Len(calls) /\ settled'.caller \in {"typed", "voice"}
        /\ settled'.status = "resolved") =>
       IF user
       THEN /\ Len(history') = Len(history) + 1
            /\ Tail(history') = history
       ELSE history' = history]_vars

====
